---------------------------- MODULE Spec2Model ----------------------------
(***************************************************************************)
(* Business-day calendars of the `business` crate.                         *)
(*                                                                         *)
(* Two Calendar implementations live in the repository:                    *)
(*   src/src/calendar.rs  working days + holidays + extra working dates,   *)
(*                        built through the validating try_new;            *)
(*   src/src/lib.rs       working days + holidays, generic over the date   *)
(*                        type, built by workweek / with_holidays / serde. *)
(* A date is a day number in 0..MaxDate (chrono's NaiveDate has a finite   *)
(* range; `date + Duration` panics when it leaves it).  Day 0 is a         *)
(* Thursday (2022-09-29 in the repository's tests).                        *)
(***************************************************************************)
EXTENDS Integers, Sequences, FiniteSets

VARIABLES calendar, call, ret

vars == <<calendar, call, ret>>

(***************************************************************************)
(* Bounds of the model.                                                    *)
(***************************************************************************)
\* the last representable date (NaiveDate::MAX, scaled down)
MaxDate == 5
\* the longest holiday / extra-working-date list given to a constructor
MaxListLen == 1
\* the largest delta given to add_business_days / subtract_business_days
MaxDelta == 2

Dates == 0..MaxDate

(***************************************************************************)
(* chrono: Weekday, Datelike::weekday, NaiveDate + Duration.               *)
(***************************************************************************)
DayOfWeek == <<"Thu", "Fri", "Sat", "Sun", "Mon", "Tue", "Wed">>

weekday(date) == DayOfWeek[(date % Len(DayOfWeek)) + 1]

\* checked addition of a number of days: <<d>> inside the range, <<>> outside
date_add(date, days) ==
    IF date + days \in Dates THEN <<date + days>> ELSE <<>>

(***************************************************************************)
(* Values: Option, Result, the outcome of a call.                          *)
(***************************************************************************)
None == <<>>

Some(x) == <<x>>

Range(s) == {s[i] : i \in 1..Len(s)}

Returned(v) == [tag |-> "Ok", val |-> v]

Failed(msg) == [tag |-> "Err", val |-> msg]

Panicked == [tag |-> "Panic", val |-> "NaiveDate + Duration overflowed"]

NoCalendar ==
    [impl |-> "none", working_days |-> <<>>, holidays |-> {},
     extra_working_dates |-> {}]

(***************************************************************************)
(* src/src/calendar.rs                                                     *)
(***************************************************************************)
WORK_WEEK == <<"Mon", "Tue", "Wed", "Thu", "Fri">>

\* mutant: the overlap of holidays and extra working dates goes unchecked
try_new_unvalidated(working_days, holidays, extra_working_dates) ==
    Returned([impl |-> "calendar_rs",
              working_days |-> working_days,
              holidays |-> Range(holidays),
              extra_working_dates |-> Range(extra_working_dates)])

try_new(working_days, holidays, extra_working_dates) ==
    LET hol == Range(holidays)
        extra == Range(extra_working_dates)
    IN  IF hol \cap extra # {}
        THEN Failed("Holidays cannot be extra working days")
        ELSE Returned([impl |-> "calendar_rs",
                       working_days |-> working_days,
                       holidays |-> hol,
                       extra_working_dates |-> extra])

unwrap_or(opt, default) == IF opt = None THEN default ELSE opt[1]

\* impl TryFrom<CalendarUnchecked> for Calendar (what serde runs on load)
try_from(cal) ==
    try_new(unwrap_or(cal.working_days, WORK_WEEK),
            unwrap_or(cal.holidays, <<>>),
            unwrap_or(cal.extra_working_dates, <<>>))

\* mutant: the extra working dates are not consulted
is_working_day_weekday_only(self, date) ==
    weekday(date) \in Range(self.working_days)

is_working_day(self, date) ==
    \/ date \in self.extra_working_dates
    \/ weekday(date) \in Range(self.working_days)

is_business_day(self, date) ==
    is_working_day(self, date) /\ ~(date \in self.holidays)

RECURSIVE roll_forward_loop(_, _)
roll_forward_loop(self, result) ==
    IF is_business_day(self, result)
    THEN Returned(result)
    ELSE LET next == date_add(result, 1)
         IN  IF next = None THEN Panicked
             ELSE roll_forward_loop(self, next[1])

\* mutant: the starting date is stepped over before it is tested
roll_forward_skips_start(self, date) ==
    LET next == date_add(date, 1)
    IN  IF next = None THEN Panicked ELSE roll_forward_loop(self, next[1])

roll_forward(self, date) == roll_forward_loop(self, date)

RECURSIVE roll_backward_loop(_, _)
roll_backward_loop(self, result) ==
    IF is_business_day(self, result)
    THEN Returned(result)
    ELSE LET next == date_add(result, -1)
         IN  IF next = None THEN Panicked
             ELSE roll_backward_loop(self, next[1])

\* mutant: the scan steps forward in time
roll_backward_steps_forward(self, date) == roll_forward_loop(self, date)

roll_backward(self, date) == roll_backward_loop(self, date)

RECURSIVE next_business_day_loop(_, _)
next_business_day_loop(self, result) ==
    LET next == date_add(result, 1)
    IN  IF next = None THEN Panicked
        ELSE IF is_business_day(self, next[1]) THEN Returned(next[1])
        ELSE next_business_day_loop(self, next[1])

\* mutant: the starting date is tested before the first step
next_business_day_inclusive(self, date) == roll_forward_loop(self, date)

next_business_day(self, date) == next_business_day_loop(self, date)

RECURSIVE previous_business_day_loop(_, _)
previous_business_day_loop(self, result) ==
    LET next == date_add(result, -1)
    IN  IF next = None THEN Panicked
        ELSE IF is_business_day(self, next[1]) THEN Returned(next[1])
        ELSE previous_business_day_loop(self, next[1])

previous_business_day(self, date) == previous_business_day_loop(self, date)

RECURSIVE add_business_days_loop(_, _, _)
add_business_days_loop(self, result, remaining) ==
    IF remaining = 0 THEN Returned(result)
    ELSE LET r == next_business_day(self, result)
         IN  IF r.tag = "Panic" THEN r
             ELSE add_business_days_loop(self, r.val, remaining - 1)

\* mutant: the loop runs once more than delta
add_business_days_one_more(self, date, delta) ==
    LET result == roll_forward(self, date)
    IN  IF result.tag = "Panic" THEN result
        ELSE add_business_days_loop(self, result.val, delta + 1)

add_business_days(self, date, delta) ==
    LET result == roll_forward(self, date)
    IN  IF result.tag = "Panic" THEN result
        ELSE add_business_days_loop(self, result.val, delta)

RECURSIVE subtract_business_days_loop(_, _, _)
subtract_business_days_loop(self, result, remaining) ==
    IF remaining = 0 THEN Returned(result)
    ELSE LET r == previous_business_day(self, result)
         IN  IF r.tag = "Panic" THEN r
             ELSE subtract_business_days_loop(self, r.val, remaining - 1)

\* the anchor is roll_forward, as the source has it
subtract_business_days(self, date, delta) ==
    LET result == roll_forward(self, date)
    IN  IF result.tag = "Panic" THEN result
        ELSE subtract_business_days_loop(self, result.val, delta)

(***************************************************************************)
(* src/src/lib.rs                                                          *)
(***************************************************************************)
WORKWEEK == <<"Mon", "Tue", "Wed", "Thu", "Fri">>

workweek == Range(WORKWEEK)

lib_calendar(working_days, holidays) ==
    [impl |-> "lib_rs", working_days |-> working_days,
     holidays |-> holidays, extra_working_dates |-> {}]

lib_workweek == lib_calendar(workweek, {})

lib_with_holidays(holidays) == lib_calendar(workweek, Range(holidays))

\* #[derive(Deserialize)]: working_days has a serde default, holidays has
\* none, and a key that is no field of the struct is ignored
lib_deserialize(cfg) ==
    IF cfg.holidays = None
    THEN Failed("missing field holidays")
    ELSE Returned(lib_calendar(
             IF cfg.working_days = None THEN workweek
             ELSE Range(cfg.working_days[1]),
             Range(cfg.holidays[1])))

\* impl IntoDate for NaiveDate
into_date(date) == date

lib_is_business_day(self, date) ==
    LET working == weekday(date) \in self.working_days
        is_holiday == into_date(date) \in self.holidays
    IN  working /\ ~is_holiday

RECURSIVE lib_roll_forward_loop(_, _)
lib_roll_forward_loop(self, result) ==
    IF lib_is_business_day(self, result)
    THEN Returned(result)
    ELSE LET next == date_add(result, 1)
         IN  IF next = None THEN Panicked
             ELSE lib_roll_forward_loop(self, next[1])

lib_roll_forward(self, date) == lib_roll_forward_loop(self, date)

RECURSIVE lib_roll_backward_loop(_, _)
lib_roll_backward_loop(self, result) ==
    IF lib_is_business_day(self, result)
    THEN Returned(result)
    ELSE LET next == date_add(result, -1)
         IN  IF next = None THEN Panicked
             ELSE lib_roll_backward_loop(self, next[1])

\* mutant: the starting date is stepped over before it is tested
lib_roll_backward_skips_start(self, date) ==
    LET next == date_add(date, -1)
    IN  IF next = None THEN Panicked ELSE lib_roll_backward_loop(self, next[1])

lib_roll_backward(self, date) == lib_roll_backward_loop(self, date)

RECURSIVE lib_next_business_day_loop(_, _)
lib_next_business_day_loop(self, result) ==
    LET next == date_add(result, 1)
    IN  IF next = None THEN Panicked
        ELSE IF lib_is_business_day(self, next[1]) THEN Returned(next[1])
        ELSE lib_next_business_day_loop(self, next[1])

\* mutant: the first business day found is stepped over
lib_next_business_day_skips_one(self, date) ==
    LET first == lib_next_business_day_loop(self, date)
    IN  IF first.tag = "Panic" THEN first
        ELSE lib_next_business_day_loop(self, first.val)

lib_next_business_day(self, date) == lib_next_business_day_loop(self, date)

RECURSIVE lib_previous_business_day_loop(_, _)
lib_previous_business_day_loop(self, result) ==
    LET next == date_add(result, -1)
    IN  IF next = None THEN Panicked
        ELSE IF lib_is_business_day(self, next[1]) THEN Returned(next[1])
        ELSE lib_previous_business_day_loop(self, next[1])

lib_previous_business_day(self, date) ==
    lib_previous_business_day_loop(self, date)

RECURSIVE lib_add_business_days_loop(_, _, _)
lib_add_business_days_loop(self, result, remaining) ==
    IF remaining = 0 THEN Returned(result)
    ELSE LET r == lib_next_business_day(self, result)
         IN  IF r.tag = "Panic" THEN r
             ELSE lib_add_business_days_loop(self, r.val, remaining - 1)

\* mutant: the anchor is rolled against the direction of travel
lib_add_business_days_anchored_backward(self, date, delta) ==
    LET result == lib_roll_backward(self, date)
    IN  IF result.tag = "Panic" THEN result
        ELSE lib_add_business_days_loop(self, result.val, delta)

lib_add_business_days(self, date, delta) ==
    LET result == lib_roll_forward(self, date)
    IN  IF result.tag = "Panic" THEN result
        ELSE lib_add_business_days_loop(self, result.val, delta)

RECURSIVE lib_subtract_business_days_loop(_, _, _)
lib_subtract_business_days_loop(self, result, remaining) ==
    IF remaining = 0 THEN Returned(result)
    ELSE LET r == lib_previous_business_day(self, result)
         IN  IF r.tag = "Panic" THEN r
             ELSE lib_subtract_business_days_loop(self, r.val, remaining - 1)

lib_subtract_business_days(self, date, delta) ==
    LET result == lib_roll_backward(self, date)
    IN  IF result.tag = "Panic" THEN result
        ELSE lib_subtract_business_days_loop(self, result.val, delta)

(***************************************************************************)
(* Inputs.                                                                 *)
(***************************************************************************)
\* the working-day lists callers and configs give
WorkingDayLists ==
    {<<>>, WORK_WEEK, <<"Mon", "Mon">>, <<"Sat", "Sun">>, <<"Tue", "Thu">>}

DateLists == UNION {[1..n -> Dates] : n \in 0..MaxListLen}

Option(S) == {None} \cup {Some(x) : x \in S}

\* the loosely-typed record a structured config parses into
Configs ==
    [working_days : Option(WorkingDayLists),
     holidays : Option(DateLists),
     extra_working_dates : Option(DateLists)]

Deltas == 0..MaxDelta

(***************************************************************************)
(* The state machine: a caller builds a Calendar, then queries it.  The    *)
(* Calendar is immutable and every operation is a pure function of it and  *)
(* its arguments, so one construction followed by one query reaches every  *)
(* outcome the program has.                                                *)
(***************************************************************************)
Constructors == {"try_new", "deserialize", "workweek", "with_holidays"}

\* nothing has been built yet
Fresh == call.fn = "none"

\* the caller holds a Calendar of this implementation, just built
Holding(impl) == calendar.impl = impl /\ call.fn \in Constructors

Init ==
    /\ calendar = NoCalendar
    /\ call = [fn |-> "none", impl |-> "none", args |-> <<>>]
    /\ ret = [tag |-> "None", val |-> <<>>]

\* a constructor ran: the caller holds the Calendar it returned, or none
Built(fn, impl, args, result) ==
    /\ call' = [fn |-> fn, impl |-> impl, args |-> args]
    /\ ret' = result
    /\ calendar' = IF result.tag = "Ok" THEN result.val ELSE NoCalendar

\* an operation ran on the Calendar the caller holds
Queried(fn, args, result) ==
    /\ call' = [fn |-> fn, impl |-> calendar.impl, args |-> args]
    /\ ret' = result
    /\ UNCHANGED calendar

TryNew ==
    /\ Fresh
    /\ \E wd \in WorkingDayLists, h \in DateLists, e \in DateLists :
        Built("try_new", "calendar_rs",
              [working_days |-> wd, holidays |-> h, extra_working_dates |-> e],
              try_new(wd, h, e))

Deserialize ==
    /\ Fresh
    /\ \E cfg \in Configs :
        Built("deserialize", "calendar_rs", cfg, try_from(cfg))

LibWorkweek ==
    /\ Fresh
    /\ Built("workweek", "lib_rs", <<>>, Returned(lib_workweek))

LibWithHolidays ==
    /\ Fresh
    /\ \E h \in DateLists :
        Built("with_holidays", "lib_rs", [holidays |-> h],
              Returned(lib_with_holidays(h)))

LibDeserialize ==
    /\ Fresh
    /\ \E cfg \in Configs :
        Built("deserialize", "lib_rs", cfg, lib_deserialize(cfg))

IsBusinessDay ==
    /\ Holding("calendar_rs")
    /\ \E d \in Dates :
        Queried("is_business_day", [date |-> d],
                Returned(is_business_day(calendar, d)))

RollForward ==
    /\ Holding("calendar_rs")
    /\ \E d \in Dates :
        Queried("roll_forward", [date |-> d], roll_forward(calendar, d))

RollBackward ==
    /\ Holding("calendar_rs")
    /\ \E d \in Dates :
        Queried("roll_backward", [date |-> d], roll_backward(calendar, d))

NextBusinessDay ==
    /\ Holding("calendar_rs")
    /\ \E d \in Dates :
        Queried("next_business_day", [date |-> d],
                next_business_day(calendar, d))

PreviousBusinessDay ==
    /\ Holding("calendar_rs")
    /\ \E d \in Dates :
        Queried("previous_business_day", [date |-> d],
                previous_business_day(calendar, d))

AddBusinessDays ==
    /\ Holding("calendar_rs")
    /\ \E d \in Dates, n \in Deltas :
        Queried("add_business_days", [date |-> d, delta |-> n],
                add_business_days(calendar, d, n))

SubtractBusinessDays ==
    /\ Holding("calendar_rs")
    /\ \E d \in Dates, n \in Deltas :
        Queried("subtract_business_days", [date |-> d, delta |-> n],
                subtract_business_days(calendar, d, n))

LibIsBusinessDay ==
    /\ Holding("lib_rs")
    /\ \E d \in Dates :
        Queried("is_business_day", [date |-> d],
                Returned(lib_is_business_day(calendar, d)))

LibRollForward ==
    /\ Holding("lib_rs")
    /\ \E d \in Dates :
        Queried("roll_forward", [date |-> d], lib_roll_forward(calendar, d))

LibRollBackward ==
    /\ Holding("lib_rs")
    /\ \E d \in Dates :
        Queried("roll_backward", [date |-> d], lib_roll_backward(calendar, d))

LibNextBusinessDay ==
    /\ Holding("lib_rs")
    /\ \E d \in Dates :
        Queried("next_business_day", [date |-> d],
                lib_next_business_day(calendar, d))

LibPreviousBusinessDay ==
    /\ Holding("lib_rs")
    /\ \E d \in Dates :
        Queried("previous_business_day", [date |-> d],
                lib_previous_business_day(calendar, d))

LibAddBusinessDays ==
    /\ Holding("lib_rs")
    /\ \E d \in Dates, n \in Deltas :
        Queried("add_business_days", [date |-> d, delta |-> n],
                lib_add_business_days(calendar, d, n))

LibSubtractBusinessDays ==
    /\ Holding("lib_rs")
    /\ \E d \in Dates, n \in Deltas :
        Queried("subtract_business_days", [date |-> d, delta |-> n],
                lib_subtract_business_days(calendar, d, n))

Next ==
    \/ TryNew
    \/ Deserialize
    \/ LibWorkweek
    \/ LibWithHolidays
    \/ LibDeserialize
    \/ IsBusinessDay
    \/ RollForward
    \/ RollBackward
    \/ NextBusinessDay
    \/ PreviousBusinessDay
    \/ AddBusinessDays
    \/ SubtractBusinessDays
    \/ LibIsBusinessDay
    \/ LibRollForward
    \/ LibRollBackward
    \/ LibNextBusinessDay
    \/ LibPreviousBusinessDay
    \/ LibAddBusinessDays
    \/ LibSubtractBusinessDays

Spec == Init /\ [][Next]_vars

(***************************************************************************)
(* What the specification says, stated without the code's loops.           *)
(***************************************************************************)
WorkingDaySet(cal) ==
    IF cal.impl = "calendar_rs" THEN Range(cal.working_days)
    ELSE cal.working_days

\* the specification's definition of a business day
BusinessDay(cal, d) ==
    /\ weekday(d) \in WorkingDaySet(cal) \/ d \in cal.extra_working_dates
    /\ d \notin cal.holidays

BusinessDaysAtOrAfter(cal, d) == {b \in Dates : b >= d /\ BusinessDay(cal, b)}

BusinessDaysAfter(cal, d) == {b \in Dates : b > d /\ BusinessDay(cal, b)}

BusinessDaysAtOrBefore(cal, d) == {b \in Dates : b <= d /\ BusinessDay(cal, b)}

BusinessDaysBefore(cal, d) == {b \in Dates : b < d /\ BusinessDay(cal, b)}

Smallest(S) == CHOOSE x \in S : \A y \in S : x <= y

Largest(S) == CHOOSE x \in S : \A y \in S : x >= y

\* the element of S with exactly n elements of S below it / above it
NthUp(S, n) == CHOOSE x \in S : Cardinality({y \in S : y < x}) = n

NthDown(S, n) == CHOOSE x \in S : Cardinality({y \in S : y > x}) = n

\* the operation of the implementation the Calendar belongs to
RollForwardOf(cal, d) ==
    IF cal.impl = "calendar_rs" THEN roll_forward(cal, d)
    ELSE lib_roll_forward(cal, d)

RollBackwardOf(cal, d) ==
    IF cal.impl = "calendar_rs" THEN roll_backward(cal, d)
    ELSE lib_roll_backward(cal, d)

NextBusinessDayOf(cal, d) ==
    IF cal.impl = "calendar_rs" THEN next_business_day(cal, d)
    ELSE lib_next_business_day(cal, d)

PreviousBusinessDayOf(cal, d) ==
    IF cal.impl = "calendar_rs" THEN previous_business_day(cal, d)
    ELSE lib_previous_business_day(cal, d)

\* next_business_day applied n times to the outcome r (a panic ends it)
RECURSIVE NextTimes(_, _, _)
NextTimes(cal, n, r) ==
    IF r.tag # "Ok" \/ n = 0 THEN r
    ELSE NextTimes(cal, n - 1, NextBusinessDayOf(cal, r.val))

RECURSIVE PreviousTimes(_, _, _)
PreviousTimes(cal, n, r) ==
    IF r.tag # "Ok" \/ n = 0 THEN r
    ELSE PreviousTimes(cal, n - 1, PreviousBusinessDayOf(cal, r.val))

Queries ==
    {"is_business_day", "roll_forward", "roll_backward", "next_business_day",
     "previous_business_day", "add_business_days", "subtract_business_days"}

(***************************************************************************)
(* C1: try_new fails with the validation error exactly when the holiday    *)
(* list and the extra-working-date list share a date, whatever the working *)
(* days are, and every Calendar that exists has disjoint holidays and      *)
(* extra working dates.                                                    *)
(***************************************************************************)
C1_ConstructionValidated ==
    /\ call.fn = "try_new" =>
          LET overlap == Range(call.args.holidays)
                            \cap Range(call.args.extra_working_dates)
          IN  /\ overlap # {} =>
                    ret = Failed("Holidays cannot be extra working days")
              /\ overlap = {} =>
                    /\ ret.tag = "Ok"
                    /\ ret.val.working_days = call.args.working_days
                    /\ ret.val.holidays = Range(call.args.holidays)
                    /\ ret.val.extra_working_dates
                          = Range(call.args.extra_working_dates)
    /\ calendar.impl # "none" =>
          calendar.holidays \cap calendar.extra_working_dates = {}

\* try_new was given a holiday that is also an extra working date
C1_Witness ==
    /\ call.fn = "try_new"
    /\ Range(call.args.holidays) \cap Range(call.args.extra_working_dates) # {}
    /\ ret.tag = "Err"
    /\ calendar = NoCalendar

(***************************************************************************)
(* C2: is_business_day(d) is true iff (weekday(d) is a working day or d is *)
(* an extra working date) and d is not a holiday.                          *)
(***************************************************************************)
C2_IsBusinessDay ==
    call.fn = "is_business_day" =>
        ret = Returned(BusinessDay(calendar, call.args.date))

\* an extra working date on a non-working weekday was found a business day
C2_Witness ==
    /\ call.fn = "is_business_day"
    /\ call.args.date \in calendar.extra_working_dates
    /\ weekday(call.args.date) \notin WorkingDaySet(calendar)
    /\ ret = Returned(TRUE)

(***************************************************************************)
(* C3: when a business day exists in the scan direction, roll_forward(d)   *)
(* is the smallest business day >= d and roll_backward(d) the largest      *)
(* business day <= d.                                                      *)
(***************************************************************************)
C3_RollNearest ==
    /\ (/\ call.fn = "roll_forward"
        /\ BusinessDaysAtOrAfter(calendar, call.args.date) # {})
       => ret = Returned(Smallest(
                    BusinessDaysAtOrAfter(calendar, call.args.date)))
    /\ (/\ call.fn = "roll_backward"
        /\ BusinessDaysAtOrBefore(calendar, call.args.date) # {})
       => ret = Returned(Largest(
                    BusinessDaysAtOrBefore(calendar, call.args.date)))

\* a roll forward over a weekend and a holiday: three days on
C3_Witness ==
    /\ call.fn = "roll_forward"
    /\ calendar.holidays # {}
    /\ ret = Returned(call.args.date + 3)

(***************************************************************************)
(* C4: on a business day d both rolls return d, and rolling a rolled date  *)
(* again changes nothing.                                                  *)
(***************************************************************************)
C4_RollIdempotent ==
    /\ (/\ call.fn \in {"roll_forward", "roll_backward"}
        /\ BusinessDay(calendar, call.args.date))
       => ret = Returned(call.args.date)
    /\ (call.fn = "roll_forward" /\ ret.tag = "Ok")
       => RollForwardOf(calendar, ret.val) = ret
    /\ (call.fn = "roll_backward" /\ ret.tag = "Ok")
       => RollBackwardOf(calendar, ret.val) = ret

\* a roll backward from a business day, which stayed where it was
C4_Witness ==
    /\ call.fn = "roll_backward"
    /\ call.impl = "lib_rs"
    /\ BusinessDay(calendar, call.args.date)
    /\ call.args.date > 0
    /\ ret = Returned(call.args.date)

(***************************************************************************)
(* C5: with a non-empty working-day set, next_business_day(d) is the       *)
(* smallest business day > d and previous_business_day(d) the largest      *)
(* business day < d, for every date d.                                     *)
(***************************************************************************)
C5_Original ==
    /\ (call.fn = "next_business_day" /\ WorkingDaySet(calendar) # {})
       => /\ BusinessDaysAfter(calendar, call.args.date) # {}
          /\ ret = Returned(Smallest(
                       BusinessDaysAfter(calendar, call.args.date)))
    /\ (call.fn = "previous_business_day" /\ WorkingDaySet(calendar) # {})
       => /\ BusinessDaysBefore(calendar, call.args.date) # {}
          /\ ret = Returned(Largest(
                       BusinessDaysBefore(calendar, call.args.date)))

\* C5 as amended: the same for every date d that has a business day after
\* it (before it) within the range of the date type.
C5_StrictNearest ==
    /\ (/\ call.fn = "next_business_day"
        /\ WorkingDaySet(calendar) # {}
        /\ BusinessDaysAfter(calendar, call.args.date) # {})
       => ret = Returned(Smallest(
                    BusinessDaysAfter(calendar, call.args.date)))
    /\ (/\ call.fn = "previous_business_day"
        /\ WorkingDaySet(calendar) # {}
        /\ BusinessDaysBefore(calendar, call.args.date) # {})
       => ret = Returned(Largest(
                    BusinessDaysBefore(calendar, call.args.date)))

\* next_business_day from a business day, over a weekend and a holiday
C5_Witness ==
    /\ call.fn = "next_business_day"
    /\ WorkingDaySet(calendar) # {}
    /\ BusinessDay(calendar, call.args.date)
    /\ calendar.holidays # {}
    /\ ret = Returned(call.args.date + 4)

(***************************************************************************)
(* C6: a value returned by next_business_day(d) or                         *)
(* previous_business_day(d) is never d: it lies after d, respectively      *)
(* before d.                                                               *)
(***************************************************************************)
C6_StrictStep ==
    /\ (call.fn = "next_business_day" /\ ret.tag = "Ok")
       => ret.val # call.args.date /\ ret.val > call.args.date
    /\ (call.fn = "previous_business_day" /\ ret.tag = "Ok")
       => ret.val # call.args.date /\ ret.val < call.args.date

\* next_business_day returned from a date that is itself a business day
C6_Witness ==
    /\ call.fn = "next_business_day"
    /\ call.impl = "calendar_rs"
    /\ BusinessDay(calendar, call.args.date)
    /\ ret.tag = "Ok"

(***************************************************************************)
(* C7: add_business_days(d, n) is next_business_day applied n times to     *)
(* roll_forward(d); a returned value is the business day with exactly n    *)
(* business days between d (inclusive) and it (exclusive).                 *)
(***************************************************************************)
C7_AddBusinessDays ==
    call.fn = "add_business_days" =>
        /\ ret = NextTimes(calendar, call.args.delta,
                           RollForwardOf(calendar, call.args.date))
        /\ call.args.delta = 0 => ret = RollForwardOf(calendar, call.args.date)
        /\ ret.tag = "Ok" =>
              LET S == BusinessDaysAtOrAfter(calendar, call.args.date)
              IN  /\ Cardinality(S) > call.args.delta
                  /\ ret.val = NthUp(S, call.args.delta)

\* two business days added to a date that is not a business day
C7_Witness ==
    /\ call.fn = "add_business_days"
    /\ ~BusinessDay(calendar, call.args.date)
    /\ call.args.delta = 2
    /\ ret.tag = "Ok"
    /\ ret.val > call.args.date + 2

(***************************************************************************)
(* C8: subtract_business_days(d, n) is previous_business_day applied n     *)
(* times to roll_backward(d).                                              *)
(***************************************************************************)
C8_SubtractBusinessDays ==
    call.fn = "subtract_business_days" =>
        ret = PreviousTimes(calendar, call.args.delta,
                            RollBackwardOf(calendar, call.args.date))

(***************************************************************************)
(* C9: after construction no operation fails: every call returns a value.  *)
(***************************************************************************)
C9_Original == call.fn \in Queries => ret.tag = "Ok"

\* C9 as amended: is_business_day always returns; the other operations
\* return a date or abort with the date-overflow panic, and abort exactly
\* when their scan leaves the date range: no business day in the direction
\* of a roll or step, fewer than n + 1 business days at or after d for
\* add_business_days, and for subtract_business_days an anchor scan or n
\* backward steps that run out of business days.
C9_FailsOnlyByOverflow ==
    call.fn \in Queries =>
        LET d == call.args.date
            atOrAfter == BusinessDaysAtOrAfter(calendar, d)
            atOrBefore == BusinessDaysAtOrBefore(calendar, d)
        IN  /\ ret.tag = "Ok" \/ ret = Panicked
            /\ call.fn = "is_business_day" => ret.tag = "Ok"
            /\ call.fn = "roll_forward" => (ret = Panicked <=> atOrAfter = {})
            /\ call.fn = "roll_backward" =>
                  (ret = Panicked <=> atOrBefore = {})
            /\ call.fn = "next_business_day" =>
                  (ret = Panicked <=> BusinessDaysAfter(calendar, d) = {})
            /\ call.fn = "previous_business_day" =>
                  (ret = Panicked <=> BusinessDaysBefore(calendar, d) = {})
            /\ call.fn = "add_business_days" =>
                  (ret = Panicked
                      <=> Cardinality(atOrAfter) <= call.args.delta)
            /\ (call.fn = "subtract_business_days" /\ call.impl = "lib_rs") =>
                  (ret = Panicked
                      <=> Cardinality(atOrBefore) <= call.args.delta)
            /\ (/\ call.fn = "subtract_business_days"
                /\ call.impl = "calendar_rs") =>
                  (ret = Panicked
                      <=> \/ atOrAfter = {}
                          \/ Cardinality(BusinessDaysBefore(
                                 calendar, Smallest(atOrAfter)))
                                < call.args.delta)

\* roll_backward ran off the start of the date range of a Calendar that
\* has business days
C9_Witness ==
    /\ call.fn = "roll_backward"
    /\ call.impl = "calendar_rs"
    /\ BusinessDaysAfter(calendar, call.args.date) # {}
    /\ ret = Panicked

(***************************************************************************)
(* C10: a config that leaves out working_days, holidays or                 *)
(* extra_working_dates loads with Monday to Friday, no holidays and no     *)
(* extra working dates in their place, and the Calendar loaded equals the  *)
(* one built explicitly from those values.                                 *)
(***************************************************************************)
OrDefault(opt, default) == IF opt = None THEN default ELSE opt[1]

MondayToFriday == <<"Mon", "Tue", "Wed", "Thu", "Fri">>

ExplicitlyBuilt(impl, wd, h, e) ==
    IF impl = "calendar_rs" THEN try_new(wd, h, e)
    ELSE Returned(lib_calendar(Range(wd), Range(h)))

C10_ConfigDefaults ==
    call.fn = "deserialize" =>
        LET wd == OrDefault(call.args.working_days, MondayToFriday)
            h == OrDefault(call.args.holidays, <<>>)
            e == OrDefault(call.args.extra_working_dates, <<>>)
        IN  /\ ret = ExplicitlyBuilt(call.impl, wd, h, e)
            /\ Range(h) \cap Range(e) = {} =>
                  /\ ret.tag = "Ok"
                  /\ WorkingDaySet(ret.val) = Range(wd)
                  /\ ret.val.holidays = Range(h)

(***************************************************************************)
(* C11: on every config-loading entry point, a config that lists a date    *)
(* both as a holiday and as an extra working date is rejected with an      *)
(* error, and no Calendar is produced.                                     *)
(***************************************************************************)
ConfigOverlap(cfg) ==
    Range(OrDefault(cfg.holidays, <<>>))
        \cap Range(OrDefault(cfg.extra_working_dates, <<>>))

C11_ConfigValidated ==
    (call.fn = "deserialize" /\ ConfigOverlap(call.args) # {})
    => ret.tag = "Err" /\ calendar = NoCalendar

(***************************************************************************)
(* C14: a calendar.rs Calendar without extra working dates and the lib.rs  *)
(* Calendar with the same working days and holidays give the same outcome  *)
(* for every operation.                                                    *)
(***************************************************************************)
LibQuery(fn, self, args) ==
    CASE fn = "is_business_day" ->
            Returned(lib_is_business_day(self, args.date))
      [] fn = "roll_forward" -> lib_roll_forward(self, args.date)
      [] fn = "roll_backward" -> lib_roll_backward(self, args.date)
      [] fn = "next_business_day" -> lib_next_business_day(self, args.date)
      [] fn = "previous_business_day" ->
            lib_previous_business_day(self, args.date)
      [] fn = "add_business_days" ->
            lib_add_business_days(self, args.date, args.delta)
      [] fn = "subtract_business_days" ->
            lib_subtract_business_days(self, args.date, args.delta)

C14_ImplementationsAgree ==
    (/\ call.fn \in Queries
     /\ call.impl = "calendar_rs"
     /\ calendar.extra_working_dates = {})
    => ret = LibQuery(call.fn,
                      lib_calendar(Range(calendar.working_days),
                                   calendar.holidays),
                      call.args)

(***************************************************************************)
(* C15: on a business day d of a Calendar with working days,               *)
(* subtract_business_days(add_business_days(d, n), n) = d and              *)
(* add_business_days(subtract_business_days(d, n), n) = d.                 *)
(***************************************************************************)
AddBusinessDaysOf(cal, d, n) ==
    IF cal.impl = "calendar_rs" THEN add_business_days(cal, d, n)
    ELSE lib_add_business_days(cal, d, n)

SubtractBusinessDaysOf(cal, d, n) ==
    IF cal.impl = "calendar_rs" THEN subtract_business_days(cal, d, n)
    ELSE lib_subtract_business_days(cal, d, n)

C15_Original ==
    /\ (/\ call.fn = "add_business_days"
        /\ WorkingDaySet(calendar) # {}
        /\ BusinessDay(calendar, call.args.date))
       => /\ ret.tag = "Ok"
          /\ SubtractBusinessDaysOf(calendar, ret.val, call.args.delta)
                = Returned(call.args.date)
    /\ (/\ call.fn = "subtract_business_days"
        /\ WorkingDaySet(calendar) # {}
        /\ BusinessDay(calendar, call.args.date))
       => /\ ret.tag = "Ok"
          /\ AddBusinessDaysOf(calendar, ret.val, call.args.delta)
                = Returned(call.args.date)

\* C15 as amended: the same whenever the first of the two operations
\* returns, that is, whenever n further business days lie in its direction
\* within the range of the date type.
C15_AddSubtractInverse ==
    /\ (/\ call.fn = "add_business_days"
        /\ WorkingDaySet(calendar) # {}
        /\ BusinessDay(calendar, call.args.date)
        /\ ret.tag = "Ok")
       => SubtractBusinessDaysOf(calendar, ret.val, call.args.delta)
             = Returned(call.args.date)
    /\ (/\ call.fn = "subtract_business_days"
        /\ WorkingDaySet(calendar) # {}
        /\ BusinessDay(calendar, call.args.date)
        /\ ret.tag = "Ok")
       => AddBusinessDaysOf(calendar, ret.val, call.args.delta)
             = Returned(call.args.date)

\* two business days added to a business day, across a weekend
C15_Witness ==
    /\ call.fn = "add_business_days"
    /\ call.impl = "calendar_rs"
    /\ WorkingDaySet(calendar) # {}
    /\ BusinessDay(calendar, call.args.date)
    /\ call.args.delta = 2
    /\ ret.tag = "Ok"
    /\ ret.val > call.args.date + 2

(***************************************************************************)
(* The loops, one iteration at a time.                                     *)
(*                                                                         *)
(* A second state machine for the termination of the rolling, stepping and *)
(* arithmetic operations: it starts with a Calendar already built, a call  *)
(* is entered, and every step is one iteration of the loop the call is in. *)
(* While a call runs, ret holds its frame: the loop it is in (pc), the     *)
(* local `result`, and the iterations the for loop of add_business_days /  *)
(* subtract_business_days has left.  Both implementations have the same    *)
(* loops; they differ in is_business_day and in the anchor of              *)
(* subtract_business_days.                                                 *)
(***************************************************************************)
StepOps ==
    {"roll_forward", "roll_backward", "next_business_day",
     "previous_business_day", "add_business_days", "subtract_business_days"}

Arithmetic == {"add_business_days", "subtract_business_days"}

\* the Calendars the constructors build from at most MaxListLen listed dates
StepCalendars ==
    {try_new(wd, h, e).val :
        <<wd, h, e>> \in {x \in WorkingDayLists \X DateLists \X DateLists :
                            /\ Len(x[2]) + Len(x[3]) <= MaxListLen
                            /\ try_new(x[1], x[2], x[3]).tag = "Ok"}}
    \cup
    {lib_deserialize([working_days |-> Some(wd), holidays |-> Some(h),
                      extra_working_dates |-> None]).val :
        <<wd, h>> \in WorkingDayLists \X DateLists}

IsBusinessDayOf(cal, d) ==
    IF cal.impl = "calendar_rs" THEN is_business_day(cal, d)
    ELSE lib_is_business_day(cal, d)

Running(pc, result, remaining) ==
    [tag |-> "Running",
     val |-> [pc |-> pc, result |-> result, remaining |-> remaining]]

\* the loop a call runs first
Entry(fn, impl) ==
    CASE fn = "add_business_days" -> "roll_forward"
      [] fn = "subtract_business_days" ->
            IF impl = "calendar_rs" THEN "roll_forward" ELSE "roll_backward"
      [] OTHER -> fn

\* the function the for loop calls
Inner(fn) ==
    IF fn = "add_business_days" THEN "next_business_day"
    ELSE "previous_business_day"

\* the loop pc found its business day: the function returns it, to the
\* caller or to the arithmetic operation that called it
LoopExit(pc, result, remaining) ==
    IF call.fn = pc THEN Returned(result)
    ELSE Running("for", result, remaining)

StepInit ==
    /\ calendar \in StepCalendars
    /\ call = [fn |-> "none", impl |-> "none", args |-> <<>>]
    /\ ret = [tag |-> "None", val |-> <<>>]

StartCall ==
    /\ call.fn = "none"
    /\ \E fn \in StepOps, d \in Dates, n \in Deltas :
        /\ fn \in Arithmetic \/ n = 0
        /\ call' = [fn |-> fn, impl |-> calendar.impl,
                    args |-> IF fn \in Arithmetic
                             THEN [date |-> d, delta |-> n]
                             ELSE [date |-> d]]
        /\ ret' = Running(Entry(fn, calendar.impl), d, n)
    /\ UNCHANGED calendar

\* while !self.is_business_day(&result) { result += Duration::days(days) }
StepRoll(pc, days) ==
    /\ ret.tag = "Running"
    /\ ret.val.pc = pc
    /\ LET f == ret.val
           next == date_add(f.result, days)
       IN  ret' = IF IsBusinessDayOf(calendar, f.result)
                  THEN LoopExit(pc, f.result, f.remaining)
                  ELSE IF next = None THEN Panicked
                  ELSE Running(pc, next[1], f.remaining)
    /\ UNCHANGED <<calendar, call>>

\* loop { result += Duration::days(days); if is_business_day { break } }
StepStrict(pc, days) ==
    /\ ret.tag = "Running"
    /\ ret.val.pc = pc
    /\ LET f == ret.val
           next == date_add(f.result, days)
       IN  ret' = IF next = None THEN Panicked
                  ELSE IF IsBusinessDayOf(calendar, next[1])
                  THEN LoopExit(pc, next[1], f.remaining)
                  ELSE Running(pc, next[1], f.remaining)
    /\ UNCHANGED <<calendar, call>>

\* mutant: the scan steps backward in time
StepRollForwardWrongWay == StepRoll("roll_forward", -1)

StepRollForward == StepRoll("roll_forward", 1)

StepRollBackward == StepRoll("roll_backward", -1)

\* mutant: the loop breaks after its first step, whatever the date is
StepNextBusinessDayUntested ==
    /\ ret.tag = "Running"
    /\ ret.val.pc = "next_business_day"
    /\ LET f == ret.val
           next == date_add(f.result, 1)
       IN  ret' = IF next = None THEN Panicked
                  ELSE LoopExit("next_business_day", next[1], f.remaining)
    /\ UNCHANGED <<calendar, call>>

StepNextBusinessDay == StepStrict("next_business_day", 1)

StepPreviousBusinessDay == StepStrict("previous_business_day", -1)

\* for _ in 0..delta { result = self.next_business_day(&result); } result
StepFor ==
    /\ ret.tag = "Running"
    /\ ret.val.pc = "for"
    /\ LET f == ret.val
       IN  ret' = IF f.remaining = 0 THEN Returned(f.result)
                  ELSE Running(Inner(call.fn), f.result, f.remaining - 1)
    /\ UNCHANGED <<calendar, call>>

Step ==
    \/ StepRollForward
    \/ StepRollBackward
    \/ StepNextBusinessDay
    \/ StepPreviousBusinessDay
    \/ StepFor

StepNext == StartCall \/ Step

\* a call that has been entered keeps running: the program is one thread
\* of synchronous code
LiveSpec == StepInit /\ [][StepNext]_vars /\ WF_vars(Step)

(***************************************************************************)
(* Termination of the rolling and stepping operations (LiveSpec).          *)
(***************************************************************************)
RollOps == StepOps \ Arithmetic

\* the business days of cal that the scan of fn, started on d, can meet
ScanTargets(cal, fn, d) ==
    CASE fn = "roll_forward" -> BusinessDaysAtOrAfter(cal, d)
      [] fn = "roll_backward" -> BusinessDaysAtOrBefore(cal, d)
      [] fn = "next_business_day" -> BusinessDaysAfter(cal, d)
      [] fn = "previous_business_day" -> BusinessDaysBefore(cal, d)

\* the union of working_days and extra_working_dates is non-empty
GuardHolds(cal) ==
    WorkingDaySet(cal) # {} \/ cal.extra_working_dates # {}

RollRunning == call.fn \in RollOps /\ ret.tag = "Running"

\* C12 as stated: on a Calendar whose working_days and extra_working_dates
\* are not both empty, every call of roll_forward, roll_backward,
\* next_business_day and previous_business_day eventually returns.  A call
\* that has ended stays ended, so the statement requires that no such call
\* ever ends without a returned date.
C12_Original ==
    (call.fn \in RollOps /\ GuardHolds(calendar) /\ ret.tag # "Running")
        => ret.tag = "Ok"

\* C12, amended: every call of roll_forward, roll_backward,
\* next_business_day and previous_business_day terminates on every Calendar,
\* the one with no working day and no extra working date included: it
\* returns when a business day lies in its scan direction, and otherwise it
\* ends with the date overflow panic.  No call runs indefinitely, and the
\* guard on working_days and extra_working_dates does not decide the outcome.
C12_RollTerminates ==
    /\ (RollRunning
          /\ ScanTargets(calendar, call.fn, call.args.date) # {})
            ~> (ret.tag = "Ok")
    /\ (RollRunning
          /\ ScanTargets(calendar, call.fn, call.args.date) = {})
            ~> (ret = Panicked)

\* a rolling call on a Calendar that passes the guard through its extra
\* working dates alone has ended without returning
C12_Witness ==
    /\ call.fn \in RollOps
    /\ WorkingDaySet(calendar) = {}
    /\ calendar.extra_working_dates # {}
    /\ ret = Panicked

(***************************************************************************)
(* Termination with a non-empty working week (LiveSpec).                   *)
(***************************************************************************)
HasWorkingDay(cal) == WorkingDaySet(cal) # {}

=============================================================================
